---- MODULE Spec2Model ----
(***************************************************************************)
(* Model of cncr_wdg.Watchdog (src/cncr_wdg/_watchdog.py).                 *)
(*                                                                         *)
(* Two execution contexts exist: the main thread, which runs the caller's  *)
(* API calls and every Python signal handler (a handler interrupts the     *)
(* main thread between two bytecodes, also while another handler runs),    *)
(* and the monitor thread created in __init__, which runs __monitor.       *)
(* Each step below is one access to shared state, so that every thread     *)
(* switch and signal delivery between two such accesses is explored.       *)
(***************************************************************************)
EXTENDS Integers, Sequences, FiniteSets, TLC

(* ---- bounds ---- *)
MaxSignals == 2      \* external signal deliveries in one run
MaxRounds == 3       \* polling rounds the monitor loop may start
MaxJoins == 2        \* join() calls the caller issues
MaxStarts == 2       \* start() calls the caller issues
MaxRegs == 1         \* register_* calls the caller issues
MaxLen == 3          \* longest callable list built by registration

(* ---- values ---- *)
None == "None"
SIGABRT == "SIGABRT"
SIGTERM == "SIGTERM"
SIGINT == "SIGINT"
Signals == {SIGTERM, SIGINT, SIGABRT}

\* the caller's list objects: 0 stands for None, 1..5 are list references
ListIds == 1 .. 5
Refs == {0} \cup ListIds
CallerLists == <<  <<"f1", "f2">>,  <<"f3", "f4">>,  <<"f5", "f6">>,  << >>,  <<"f7">>  >>

\* the lists the caller passes to register_*_callables
RegArgs == {5}

\* the signal lists the caller passes to register_shutdown_signals
SignalArgs == { <<SIGTERM, SIGINT>>, <<SIGABRT, SIGABRT>> }

ProbeOutcomes == {"healthy", "unhealthy", "raises"}
ActionOutcomes == {"returns", "raises"}

VARIABLES
    heap,                \* list reference -> contents (Python list objects)
    monitor_callables,   \* self.__monitor_callables: a reference or 0 (None)
    shutdown_callables,  \* self.__shutdown_callables
    join_callables,      \* self.__join_callables
    shutdown_signals,    \* self.__shutdown_signals: a list of signal numbers
    installed,           \* signal -> number of signal.signal() installs
    signal,              \* self.__signal: None or the recorded cause
    sleeper,             \* self.__sleeper: the Event's flag
    mpc,                 \* position of the monitor thread in __monitor
    mi,                  \* index of the for loop over the probes
    mframe,              \* __handle_shutdown called inline by the monitor
    handlers,            \* stack of signal handlers running in the main thread
    cpc,                 \* position of the caller in the main thread
    ci,                  \* index of the for loop in join()
    result,              \* outcome of the caller's last API call
    \* ---- history ----
    first_attempt,       \* sig_num of the first __handle_shutdown call
    shut_count,          \* position -> calls of that shutdown action
    delivered,           \* external signals delivered
    rounds,              \* polling rounds started
    round_log,           \* <<position, outcome>> of the probes of this round
    fault,               \* <<round, position>> of the first probe that raised
    unhealthy_round,     \* round of the first unhealthy result, 0 if none
    wait_ended,          \* the start-delay wait has returned
    sig_at_wait_end,     \* self.__signal when the start-delay wait returned
    late_probes,         \* probes called while a cause was already recorded
    join_log,            \* positions of the join actions called by this join()
    join_fault,          \* position of the last join action that raised
    alive_at_join_call,  \* a join action began while the monitor thread ran
    early_join,          \* a join() was issued before any start()
    njoins, nstarts, nregs

objvars == <<heap, monitor_callables, shutdown_callables, join_callables,
             shutdown_signals, installed>>
trigvars == <<signal, sleeper>>
monvars == <<mpc, mi, mframe>>
mainvars == <<handlers, cpc, ci, result>>
exechist == <<first_attempt, shut_count, delivered>>
monhist == <<rounds, round_log, fault, unhealthy_round, wait_ended,
             sig_at_wait_end, late_probes>>
callhist == <<join_log, join_fault, alive_at_join_call, early_join, njoins,
              nstarts, nregs>>
vars == <<objvars, trigvars, monvars, mainvars, exechist, monhist, callhist>>

(* ---- helpers ---- *)
\* Python truthiness of an Optional[list]: None and [] are falsy
Truthy(ref) == ref # 0 /\ heap[ref] # << >>

Contains(seq, x) == \E k \in 1 .. Len(seq) : seq[k] = x

\* a registration that appends every given number
RegisteredList_NoCheck(cur, nums) == cur \o nums

\* register_shutdown_signals: the resulting self.__shutdown_signals
RECURSIVE RegisteredList(_, _)
RegisteredList(cur, nums) ==
    IF nums = << >> THEN cur
    ELSE IF Contains(cur, Head(nums)) THEN RegisteredList(cur, Tail(nums))
    ELSE RegisteredList(Append(cur, Head(nums)), Tail(nums))

\* register_shutdown_signals: the resulting count of signal.signal() installs
RECURSIVE RegisteredInstalls(_, _, _)
RegisteredInstalls(inst, cur, nums) ==
    IF nums = << >> THEN inst
    ELSE IF Contains(cur, Head(nums)) THEN RegisteredInstalls(inst, cur, Tail(nums))
    ELSE RegisteredInstalls([inst EXCEPT ![Head(nums)] = @ + 1],
                            Append(cur, Head(nums)), Tail(nums))

\* signal.signal() raises ValueError outside the main thread
SignalInstallAllowed(ctx) == ctx = "main"

\* one execution of __handle_shutdown: its sig_num, its position, the index
\* of its for loop, the positions of the callables it has called, the position
\* of the last callable that raised, and whether it wrote self.__signal
NoFrame == [sig |-> None, pc |-> "none", i |-> 0, calls |-> << >>, raised |-> 0, won |-> FALSE]
NewFrame(sig) == [sig |-> sig, pc |-> "check", i |-> 0, calls |-> << >>, raised |-> 0, won |-> FALSE]

ThreadAlive == mpc \notin {"unstarted", "exited", "died"}

\* constructor arguments: monitor_callables, shutdown_callables,
\* join_callables (list references or None) and shutdown_signals.  SIGABRT
\* is mostly left to a later register_shutdown_signals call, which gives the
\* configurations in which the polling loop runs.
Configs ==
    { <<1, 2, 3, <<SIGTERM>> >>,
      <<1, 2, 3, <<SIGTERM, SIGTERM>> >>,
      <<0, 2, 2, <<SIGTERM, SIGINT>> >>,
      <<0, 2, 0, <<SIGABRT>> >>,
      <<0, 0, 0, << >> >>,
      <<4, 4, 4, <<SIGTERM>> >> }

\* constructor arguments with which the polling loop runs from the start:
\* one probe, and SIGABRT registered by the caller
LiveConfigs ==
    { <<5, 2, 0, <<SIGTERM, SIGABRT>> >> }

(* ---- construction: lines 41-55 ---- *)
Construct(cfgs) ==
    /\ heap = [l \in ListIds |-> CallerLists[l]]
    /\ \E c \in cfgs :
          /\ monitor_callables = c[1]
          /\ shutdown_callables = c[2]
          /\ join_callables = c[3]
          /\ shutdown_signals = RegisteredList(<< >>, c[4])
          /\ installed = RegisteredInstalls([s \in Signals |-> 0], << >>, c[4])
    /\ signal = None
    /\ sleeper = FALSE
    /\ mpc = "unstarted" /\ mi = 0 /\ mframe = NoFrame
    /\ handlers = << >> /\ cpc = "idle" /\ ci = 0 /\ result = "none"
    /\ first_attempt = None /\ shut_count = [p \in 1 .. MaxLen |-> 0]
    /\ delivered = 0
    /\ rounds = 0 /\ round_log = << >> /\ fault = <<0, 0>>
    /\ unhealthy_round = 0
    /\ wait_ended = FALSE /\ sig_at_wait_end = None /\ late_probes = 0
    /\ join_log = << >> /\ join_fault = 0 /\ alive_at_join_call = FALSE
    /\ early_join = FALSE
    /\ njoins = 0 /\ nstarts = 0 /\ nregs = 0

Init == Construct(Configs)

(* ---- __handle_shutdown, run by a context ("main" or "monitor") ---- *)
HasFrame(ctx) == IF ctx = "main" THEN handlers # << >> ELSE mframe.pc # "none"

CurFrame(ctx) == IF ctx = "main" THEN handlers[Len(handlers)] ELSE mframe

SetFrame(ctx, f) ==
    IF ctx = "main"
    THEN handlers' = [handlers EXCEPT ![Len(handlers)] = f] /\ UNCHANGED mframe
    ELSE mframe' = f /\ UNCHANGED handlers

TriggerWins_Inverted(s) == s # None

\* line 58: the execution goes on only if no cause is recorded
TriggerWins(s) == s = None

ShutdownCallNext_Abort(f, outcome) ==
    IF outcome = "raises"
    THEN [f EXCEPT !.pc = "return", !.calls = Append(f.calls, f.i), !.raised = f.i]
    ELSE [f EXCEPT !.i = f.i + 1, !.calls = Append(f.calls, f.i)]

\* lines 64-68: func() is called; the loop goes on with the next callable
\* whether func() returned or raised an Exception (caught and logged)
ShutdownCallNext(f, outcome) ==
    [f EXCEPT !.i = f.i + 1,
              !.calls = Append(f.calls, f.i),
              !.raised = IF outcome = "raises" THEN f.i ELSE f.raised]

\* line 58: if self.__signal is None
HCheck(ctx) ==
    /\ HasFrame(ctx) /\ CurFrame(ctx).pc = "check"
    /\ SetFrame(ctx, [CurFrame(ctx) EXCEPT
                        !.pc = IF TriggerWins(signal) THEN "set" ELSE "return"])
    /\ UNCHANGED <<objvars, trigvars, mpc, mi, cpc, ci, result, exechist,
                   monhist, callhist>>

\* line 59: self.__signal = sig_num
HSetSignal(ctx) ==
    /\ HasFrame(ctx) /\ CurFrame(ctx).pc = "set"
    /\ signal' = CurFrame(ctx).sig
    /\ SetFrame(ctx, [CurFrame(ctx) EXCEPT !.pc = "wake", !.won = TRUE])
    /\ UNCHANGED <<objvars, sleeper, mpc, mi, cpc, ci, result, exechist,
                   monhist, callhist>>

\* line 60: the Event's flag after self.__sleeper.set()
WakeFlag_Unset == sleeper
WakeFlag == TRUE

\* lines 60-62: self.__sleeper.set(); if self.__shutdown_callables
HWake(ctx) ==
    /\ HasFrame(ctx) /\ CurFrame(ctx).pc = "wake"
    /\ sleeper' = WakeFlag
    /\ SetFrame(ctx, IF Truthy(shutdown_callables)
                     THEN [CurFrame(ctx) EXCEPT !.pc = "loop", !.i = 1]
                     ELSE [CurFrame(ctx) EXCEPT !.pc = "return"])
    /\ UNCHANGED <<objvars, signal, mpc, mi, cpc, ci, result, exechist,
                   monhist, callhist>>

\* lines 64-68: the next shutdown callable is called, or the loop ends
HLoop(ctx) ==
    /\ HasFrame(ctx) /\ CurFrame(ctx).pc = "loop"
    /\ IF CurFrame(ctx).i <= Len(heap[shutdown_callables])
       THEN /\ \E outcome \in ActionOutcomes :
                  SetFrame(ctx, ShutdownCallNext(CurFrame(ctx), outcome))
            /\ shut_count' = [shut_count EXCEPT ![CurFrame(ctx).i] = @ + 1]
       ELSE /\ SetFrame(ctx, [CurFrame(ctx) EXCEPT !.pc = "return"])
            /\ UNCHANGED shut_count
    /\ UNCHANGED <<objvars, trigvars, mpc, mi, cpc, ci, result, first_attempt,
                   delivered, monhist, callhist>>

\* __handle_shutdown returns: to the interrupted main-thread code, or to
\* line 82 (break) and so to the wait of line 85 in the monitor thread
HReturn(ctx) ==
    /\ HasFrame(ctx) /\ CurFrame(ctx).pc = "return"
    /\ IF ctx = "main"
       THEN /\ handlers' = SubSeq(handlers, 1, Len(handlers) - 1)
            /\ UNCHANGED <<mframe, mpc>>
       ELSE /\ mframe' = NoFrame
            /\ mpc' = "sleep"
            /\ UNCHANGED handlers
    /\ UNCHANGED <<objvars, trigvars, mi, cpc, ci, result, exechist, monhist,
                   callhist>>

\* the operating system delivers a signal whose handler is installed
\* (line 90); Python runs the handler in the main thread
Deliver(sig) ==
    /\ installed[sig] > 0
    /\ delivered < MaxSignals
    /\ delivered' = delivered + 1
    /\ first_attempt' = IF first_attempt = None THEN sig ELSE first_attempt
    /\ handlers' = Append(handlers, NewFrame(sig))
    /\ UNCHANGED <<objvars, trigvars, monvars, cpc, ci, result, shut_count,
                   monhist, callhist>>

(* ---- __monitor, run by the monitor thread ---- *)
\* the probes list as the for loop of line 76 sees it
Probes == heap[monitor_callables]

ProbeNext_NoTrigger(outcome) == "for"

ProbeNext_FaultIsUnhealthy(outcome) == IF outcome = "healthy" THEN "for" ELSE "handle"

\* lines 80-84: what follows a probe's outcome: an unhealthy result calls
\* __handle_shutdown and breaks, a raised Exception is logged and the for
\* loop goes on, as it does after a healthy result
ProbeNext(outcome) == IF outcome = "unhealthy" THEN "handle" ELSE "for"

\* line 71: self.__sleeper.wait(timeout=self.__start_delay) returns, because
\* the flag is set or because the delay has passed
MStartWait ==
    /\ mpc = "start_wait"
    /\ mpc' = "if_signal"
    /\ wait_ended' = TRUE
    /\ sig_at_wait_end' = signal
    /\ UNCHANGED <<objvars, trigvars, mi, mframe, mainvars, exechist, rounds,
                   round_log, fault, unhealthy_round, late_probes, callhist>>

\* lines 72-74: if self.__signal is None, register SIGABRT unless it is
\* registered; signal.signal() raises ValueError in this thread, which ends it
MIfSignal ==
    /\ mpc = "if_signal"
    /\ IF signal # None
       THEN /\ mpc' = "exited"
            /\ UNCHANGED <<shutdown_signals, installed>>
       ELSE IF Contains(shutdown_signals, SIGABRT)
       THEN /\ mpc' = "while"
            /\ UNCHANGED <<shutdown_signals, installed>>
       ELSE IF SignalInstallAllowed("monitor")
       THEN /\ mpc' = "while"
            /\ shutdown_signals' = RegisteredList(shutdown_signals, <<SIGABRT>>)
            /\ installed' = RegisteredInstalls(installed, shutdown_signals, <<SIGABRT>>)
       ELSE /\ mpc' = "died"
            /\ UNCHANGED <<shutdown_signals, installed>>
    /\ UNCHANGED <<heap, monitor_callables, shutdown_callables, join_callables,
                   trigvars, mi, mframe, mainvars, exechist, monhist, callhist>>

\* line 75: while self.__signal is None; line 76: the for loop is entered,
\* which raises TypeError when self.__monitor_callables is None
MWhile ==
    /\ mpc = "while"
    /\ IF signal = None
       THEN /\ rounds < MaxRounds
            /\ rounds' = rounds + 1
            /\ round_log' = << >>
            /\ mpc' = IF monitor_callables = 0 THEN "died" ELSE "for"
            /\ mi' = 1
       ELSE /\ mpc' = "exited"
            /\ UNCHANGED <<rounds, round_log, mi>>
    /\ UNCHANGED <<objvars, trigvars, mframe, mainvars, exechist, fault,
                   unhealthy_round, wait_ended, sig_at_wait_end, late_probes,
                   callhist>>

\* lines 77-78: the round goes on only while no cause is recorded
RoundContinues_Unchecked(s) == TRUE
RoundContinues(s) == s = None

\* lines 76-78: the next probe, if any and if no cause is recorded
MFor ==
    /\ mpc = "for"
    /\ mpc' = IF mi <= Len(Probes) /\ RoundContinues(signal) THEN "call" ELSE "sleep"
    /\ UNCHANGED <<objvars, trigvars, mi, mframe, mainvars, exechist, monhist,
                   callhist>>

\* lines 79-84: func() is called and returns a truthy or falsy value, or raises
MCall ==
    /\ mpc = "call"
    /\ \E outcome \in ProbeOutcomes :
          /\ round_log' = Append(round_log, <<mi, outcome>>)
          /\ fault' = IF outcome = "raises" /\ fault = <<0, 0>>
                      THEN <<rounds, mi>> ELSE fault
          /\ unhealthy_round' = IF outcome = "unhealthy" /\ unhealthy_round = 0
                                THEN rounds ELSE unhealthy_round
          /\ mpc' = ProbeNext(outcome)
          /\ IF ProbeNext(outcome) = "handle"
             THEN /\ mframe' = NewFrame(SIGABRT)
                  /\ first_attempt' = IF first_attempt = None THEN SIGABRT
                                      ELSE first_attempt
                  /\ UNCHANGED mi
             ELSE /\ mi' = mi + 1
                  /\ UNCHANGED <<mframe, first_attempt>>
    /\ late_probes' = IF signal = None THEN late_probes ELSE late_probes + 1
    /\ UNCHANGED <<objvars, trigvars, mainvars, shut_count, delivered, rounds,
                   wait_ended, sig_at_wait_end, callhist>>

\* line 85: self.__sleeper.wait(self.__monitor_delay) returns
MSleep ==
    /\ mpc = "sleep"
    /\ mpc' = "while"
    /\ UNCHANGED <<objvars, trigvars, mi, mframe, mainvars, exechist, monhist,
                   callhist>>

(* ---- the caller's API calls, run by the main thread ---- *)
\* a caller whose code runs beside the handlers
CallerRuns_Always == TRUE

\* the main thread runs the caller's code only when no handler is running
CallerRuns == handlers = << >>

\* lines 93-103: the list a register_*_callables call leaves in the field:
\* += extends the field's list object in place, else the argument is stored
RegisteredRef(cur, arg) == IF Truthy(cur) THEN cur ELSE arg

RegisteredHeap(cur, arg) ==
    IF Truthy(cur) THEN [heap EXCEPT ![cur] = heap[cur] \o heap[arg]] ELSE heap

ThreadJoined_NoWait == TRUE

\* line 110: Thread.join() returns once the thread has ended
ThreadJoined == ~ThreadAlive

\* lines 112-115: the loop goes on with the next callable, error or not
JoinCallNext(i, outcome) == i + 1

ThreadEntry_NoWait == "if_signal"

\* lines 106-107 and 70-71: the new thread begins __monitor with the wait
ThreadEntry == "start_wait"

\* lines 87-91, called by the caller before start()
RegisterShutdownSignals(sigs) ==
    /\ CallerRuns /\ cpc = "idle" /\ mpc = "unstarted"
    /\ nregs < MaxRegs
    /\ nregs' = nregs + 1
    /\ shutdown_signals' = RegisteredList(shutdown_signals, sigs)
    /\ installed' = RegisteredInstalls(installed, shutdown_signals, sigs)
    /\ UNCHANGED <<heap, monitor_callables, shutdown_callables, join_callables,
                   trigvars, monvars, mainvars, exechist, monhist,
                   join_log, join_fault, alive_at_join_call, early_join, njoins,
                   nstarts>>

\* lines 93-97, called by the caller before start()
RegisterShutdownCallables(arg) ==
    /\ CallerRuns /\ cpc = "idle" /\ mpc = "unstarted"
    /\ nregs < MaxRegs
    /\ Len(RegisteredHeap(shutdown_callables, arg)[RegisteredRef(shutdown_callables, arg)]) <= MaxLen
    /\ nregs' = nregs + 1
    /\ heap' = RegisteredHeap(shutdown_callables, arg)
    /\ shutdown_callables' = RegisteredRef(shutdown_callables, arg)
    /\ UNCHANGED <<monitor_callables, join_callables, shutdown_signals,
                   installed, trigvars, monvars, mainvars, exechist,
                   monhist, join_log, join_fault, alive_at_join_call, early_join,
                   njoins, nstarts>>

\* lines 99-103, called by the caller before start()
RegisterMonitorCallables(arg) ==
    /\ CallerRuns /\ cpc = "idle" /\ mpc = "unstarted"
    /\ nregs < MaxRegs
    /\ Len(RegisteredHeap(monitor_callables, arg)[RegisteredRef(monitor_callables, arg)]) <= MaxLen
    /\ nregs' = nregs + 1
    /\ heap' = RegisteredHeap(monitor_callables, arg)
    /\ monitor_callables' = RegisteredRef(monitor_callables, arg)
    /\ UNCHANGED <<shutdown_callables, join_callables, shutdown_signals,
                   installed, trigvars, monvars, mainvars, exechist,
                   monhist, join_log, join_fault, alive_at_join_call, early_join,
                   njoins, nstarts>>

\* line 107: Thread.start() runs a thread at most once
CanStart_Again(pc) == pc \in {"unstarted", "exited", "died"}
CanStart(pc) == pc = "unstarted"

\* lines 105-107: Thread.start() raises RuntimeError on a started thread
Start ==
    /\ CallerRuns /\ cpc = "idle"
    /\ nstarts < MaxStarts
    /\ nstarts' = nstarts + 1
    /\ IF CanStart(mpc)
       THEN mpc' = ThreadEntry /\ result' = "start_returned"
       ELSE mpc' = mpc /\ result' = "start_runtime_error"
    /\ UNCHANGED <<objvars, trigvars, mi, mframe, handlers, cpc, ci, exechist,
                   monhist, join_log, join_fault, alive_at_join_call, early_join,
                   njoins, nregs>>

\* line 110: Thread.join() accepts only a thread that start() has started
ThreadStarted_Always == TRUE
ThreadStarted == mpc # "unstarted"

\* lines 109-110: Thread.join() raises RuntimeError on an unstarted thread,
\* else it blocks
Join ==
    /\ CallerRuns /\ cpc = "idle"
    /\ njoins < MaxJoins
    /\ njoins' = njoins + 1
    /\ IF ThreadStarted
       THEN /\ result' = "join_running"
            /\ cpc' = "join_wait"
            /\ join_log' = << >>
            /\ join_fault' = 0
            /\ UNCHANGED early_join
       ELSE /\ result' = "join_runtime_error"
            /\ early_join' = TRUE
            /\ UNCHANGED <<cpc, join_log, join_fault>>
    /\ UNCHANGED <<objvars, trigvars, monvars, handlers, ci, exechist, monhist,
                   alive_at_join_call, nstarts, nregs>>

\* lines 110-111: Thread.join() returns; the for loop is entered, which
\* raises TypeError when self.__join_callables is None
JoinWait ==
    /\ CallerRuns /\ cpc = "join_wait"
    /\ ThreadJoined
    /\ IF join_callables = 0
       THEN cpc' = "idle" /\ result' = "join_type_error" /\ UNCHANGED ci
       ELSE cpc' = "join_for" /\ ci' = 1 /\ UNCHANGED result
    /\ UNCHANGED <<objvars, trigvars, monvars, handlers, exechist, monhist,
                   callhist>>

\* lines 111-116: the next join callable is called and returns or raises
\* (an Exception is caught and logged), or the loop ends and join() returns
JoinFor ==
    /\ CallerRuns /\ cpc = "join_for"
    /\ IF ci <= Len(heap[join_callables])
       THEN /\ \E outcome \in ActionOutcomes :
                  /\ ci' = JoinCallNext(ci, outcome)
                  /\ join_fault' = IF outcome = "raises" THEN ci ELSE join_fault
            /\ join_log' = Append(join_log, ci)
            /\ alive_at_join_call' = (alive_at_join_call \/ ThreadAlive)
            /\ UNCHANGED <<cpc, result>>
       ELSE /\ cpc' = "idle"
            /\ result' = "join_returned"
            /\ UNCHANGED <<ci, join_log, join_fault, alive_at_join_call>>
    /\ UNCHANGED <<objvars, trigvars, monvars, handlers, exechist, monhist,
                   early_join, njoins, nstarts, nregs>>

\* lines 71 and 85: Event.wait() returns at once when the flag is set
MStartWaitWoken == sleeper /\ MStartWait
MSleepWoken == sleeper /\ MSleep

(* ---- the program ---- *)
Contexts == {"main", "monitor"}

Next ==
    \/ \E sig \in Signals : Deliver(sig)
    \/ \E ctx \in Contexts : HCheck(ctx)
    \/ \E ctx \in Contexts : HSetSignal(ctx)
    \/ \E ctx \in Contexts : HWake(ctx)
    \/ \E ctx \in Contexts : HLoop(ctx)
    \/ \E ctx \in Contexts : HReturn(ctx)
    \/ MStartWait
    \/ MIfSignal
    \/ MWhile
    \/ MFor
    \/ MCall
    \/ MSleep
    \/ \E sigs \in SignalArgs : RegisterShutdownSignals(sigs)
    \/ \E arg \in RegArgs : RegisterShutdownCallables(arg)
    \/ \E arg \in RegArgs : RegisterMonitorCallables(arg)
    \/ Start
    \/ Join
    \/ JoinWait
    \/ JoinFor

Spec == Init /\ [][Next]_vars

(* ---- the program under fair scheduling ---- *)
\* the steps of __handle_shutdown in one context
HandlerStep(ctx) ==
    HCheck(ctx) \/ HSetSignal(ctx) \/ HWake(ctx) \/ HLoop(ctx) \/ HReturn(ctx)

\* the steps of the monitor thread that need no timeout to expire
MonitorStep ==
    \/ MStartWaitWoken
    \/ MIfSignal
    \/ MWhile
    \/ MFor
    \/ MCall
    \/ MSleepWoken
    \/ HandlerStep("monitor")

InitLive == Construct(LiveConfigs)

\* the caller starts the watchdog; SIGTERM arrives from outside at any time
NextLive ==
    \/ Start
    \/ Deliver(SIGTERM)
    \/ HandlerStep("main")
    \/ MStartWait
    \/ MSleep
    \/ MonitorStep

\* Both threads keep being scheduled and every callable returns; a wait is
\* sure to return only when the flag is set, its timeout may never expire.
SpecLive ==
    /\ InitLive
    /\ [][NextLive]_vars
    /\ WF_vars(MonitorStep)
    /\ WF_vars(HandlerStep("main"))


(* ---- properties ---- *)
\* the __handle_shutdown executions in progress, in either context
Frames ==
    {handlers[k] : k \in 1 .. Len(handlers)}
        \cup (IF mframe.pc # "none" THEN {mframe} ELSE {})

Positions(n) == [k \in 1 .. n |-> k]

ProbeCount == IF monitor_callables = 0 THEN 0 ELSE Len(heap[monitor_callables])

ShutdownLen == IF Truthy(shutdown_callables) THEN Len(heap[shutdown_callables]) ELSE 0

\* C1: whatever the interleaving of trigger attempts (signals handled in the
\* main thread, a probe failure in the monitor thread), no registered shutdown
\* action is called more than once, and an attempt that did not record its
\* cause calls none.
C1_ShutdownExactlyOnce ==
    /\ \A p \in 1 .. MaxLen : shut_count[p] <= 1
    /\ \A f \in Frames : ~f.won => f.calls = << >>

\* C2: the recorded cause is written at most once: once self.__signal holds a
\* cause it keeps that cause in every later state, and the cause it holds is
\* that of the first trigger attempt (of two signals A then B, it is A).
C2_CauseWrittenOnce ==
    [][ /\ (signal # None => signal' = signal)
        /\ (signal' # None => signal' = first_attempt') ]_vars

\* C3: in every polling round, a probe that returned unhealthy is the last
\* probe invoked in that round: no probe at a later position is invoked.
C3_ProbeShortCircuit ==
    \A k \in 1 .. Len(round_log) :
        round_log[k][2] = "unhealthy" => k = Len(round_log)

C3_Witness ==
    /\ mpc = "exited"
    /\ ProbeCount = 2
    /\ round_log = << <<1, "unhealthy">> >>

\* a step in which a probe is invoked and raises
ProbeRaises ==
    /\ round_log' # round_log
    /\ round_log' # << >>
    /\ round_log'[Len(round_log')][2] = "raises"

\* C4: a probe invocation that raises leaves self.__signal unchanged and runs
\* no shutdown action; the for loop goes on with the next position, the probes
\* of a round are invoked in order without a gap, and every new round starts
\* again at the first probe.
C4_ProbeFaultIsolation ==
    [][ /\ ProbeRaises =>
             /\ signal' = signal
             /\ shut_count' = shut_count
             /\ mframe' = NoFrame
             /\ mpc' = "for" /\ mi' = mi + 1
        /\ \A k \in 1 .. Len(round_log') : round_log'[k][1] = k
        /\ (rounds' = rounds + 1 /\ mpc' = "for") => (mi' = 1 /\ round_log' = << >>)
      ]_vars

C4_Witness ==
    /\ fault = <<1, 1>>
    /\ rounds = 2
    /\ round_log = << <<1, "raises">>, <<2, "healthy">> >>
    /\ signal = None

\* C5: every execution of __handle_shutdown calls the shutdown actions in
\* registration order, and an execution that recorded its cause has called
\* every one of them when it returns, whichever of them raised: an error
\* neither skips the later actions nor ends the execution early.
C5_ActionIsolation ==
    \A f \in Frames :
        /\ f.calls = Positions(Len(f.calls))
        /\ f.raised # 0 => f.pc \in {"loop", "return"} /\ f.raised <= Len(f.calls)
        /\ (f.pc = "return" /\ f.won) => f.calls = Positions(ShutdownLen)

C5_Witness ==
    \E f \in Frames :
        /\ f.pc = "return" /\ f.won
        /\ f.calls = <<1, 2, 3>>
        /\ f.raised = 2

\* C6: no join action is called while the monitor thread is running; each
\* join() call calls the join actions in registration order, each once, and
\* has called every one of them when it returns, whichever of them raised.
C6_JoinOrdering ==
    /\ ~alive_at_join_call
    /\ cpc = "join_for" => ~ThreadAlive
    /\ join_log = Positions(Len(join_log))
    /\ join_fault <= Len(join_log)
    /\ result = "join_returned" =>
          /\ ~ThreadAlive
          /\ join_log = Positions(Len(heap[join_callables]))

C6_Witness ==
    /\ result = "join_returned"
    /\ join_log = <<1, 2>>
    /\ join_fault = 1
    /\ rounds > 0

\* C7: whenever the monitor thread has ended, or join() is past its wait, a
\* cause is recorded: the thread never ends while self.__signal is None,
\* whatever lists the constructor was given.
C7_ExitOnlyTriggered ==
    (mpc \in {"exited", "died"} \/ cpc = "join_for") => signal \in Signals

\* C8: with no external signal delivered and no probe raising, if the first
\* unhealthy result occurs in round r then no round after r is started, no
\* shutdown action is called twice, and when the thread has exited the cause
\* is SIGABRT and every shutdown action has been called exactly once.
C8_ProbeFailureScenario ==
    (delivered = 0 /\ fault = <<0, 0>> /\ unhealthy_round > 0) =>
        /\ rounds = unhealthy_round
        /\ \A p \in 1 .. MaxLen : shut_count[p] <= 1
        /\ mpc \in {"handle", "sleep", "while", "exited"}
        /\ mpc # "handle" =>
              /\ signal = SIGABRT
              /\ \A p \in 1 .. ShutdownLen : shut_count[p] = 1

C8_Witness ==
    /\ delivered = 0 /\ fault = <<0, 0>>
    /\ unhealthy_round = 3 /\ rounds = 3
    /\ round_log = << <<1, "healthy">>, <<2, "unhealthy">> >>
    /\ mpc = "exited"
    /\ signal = SIGABRT
    /\ shut_count[1] = 1 /\ shut_count[2] = 1

\* C9: no polling round starts and no probe is invoked before the start-delay
\* wait has returned; if a cause was recorded when that wait returned, no
\* round is ever started and the thread exits without polling.
C9_StartDelay ==
    /\ (rounds > 0 \/ round_log # << >> \/ mpc \in {"while", "for", "call", "handle", "sleep"})
          => wait_ended
    /\ (wait_ended /\ sig_at_wait_end # None) =>
          /\ rounds = 0 /\ round_log = << >>
          /\ mpc \in {"if_signal", "exited"}

C9_Witness ==
    /\ wait_ended /\ sig_at_wait_end = SIGTERM
    /\ mpc = "exited"
    /\ rounds = 0
    /\ ProbeCount = 2 /\ Contains(shutdown_signals, SIGABRT)

\* C10: a join() called after start() never ends with an error: it returns
\* normally, whichever optional lists the constructor was given.
C10_JoinNeverRaises ==
    result # "join_type_error"


(* C11: a join() issued before any start() ends with the RuntimeError of
   Thread.join() reported to the caller: it calls no join action, and it
   changes neither the watchdog's fields, nor the trigger state, nor the
   monitor thread, nor any running handler, so that a later start() and
   join() proceed as if it had not been issued. *)
C11_JoinBeforeStart ==
    [][(njoins' = njoins + 1 /\ mpc = "unstarted")
         => /\ result' = "join_runtime_error"
            /\ cpc' = "idle"
            /\ join_log' = join_log
            /\ UNCHANGED <<objvars, trigvars, monvars, handlers, ci, exechist,
                           monhist, join_fault, alive_at_join_call, nstarts,
                           nregs>>]_vars

\* after a join() before start(), start() and a second join() ran to the end
C11_Witness ==
    /\ early_join /\ njoins = 2
    /\ result = "join_returned"
    /\ rounds > 0 /\ join_log # << >>

\* number of times a signal number occurs in self.__shutdown_signals
Occurrences(num) ==
    Cardinality({k \in 1 .. Len(shutdown_signals) : shutdown_signals[k] = num})

(* C12: the recorded cause is the probe-failure sentinel (SIGABRT) only if
   some probe invocation returned an unhealthy result; an externally
   delivered signal never leaves the sentinel as the recorded cause. *)
C12_SentinelDistinct ==
    signal = SIGABRT => unhealthy_round > 0

(* C13: self.__shutdown_signals holds each signal number at most once, the
   handler is installed at most once per signal and exactly for the numbers
   in the list, and a registration only appends numbers to the list: the
   numbers already registered keep their place. *)
C13_RegisterIdempotent ==
    /\ [](\A num \in Signals :
             /\ Occurrences(num) <= 1
             /\ installed[num] = Occurrences(num))
    /\ [][/\ Len(shutdown_signals') >= Len(shutdown_signals)
          /\ SubSeq(shutdown_signals', 1, Len(shutdown_signals)) = shutdown_signals]_vars

\* the caller registered <<SIGABRT, SIGABRT>> on top of the constructor's
\* SIGTERM, and both handlers have since run
C13_Witness ==
    /\ shutdown_signals = <<SIGTERM, SIGABRT>>
    /\ nregs = 1
    /\ installed[SIGABRT] = 1
    /\ delivered = 2 /\ first_attempt = SIGABRT

(* C14: once the start-delay wait has returned with no cause recorded, and
   line 72 has found none either, SIGABRT is in self.__shutdown_signals and
   the monitor thread has started its first polling round (or stands at the
   while of line 75); it has not ended without having called a probe. *)
C14_LazySentinel ==
    (/\ wait_ended
     /\ mpc # "if_signal"
     /\ ~(mpc = "exited" /\ rounds = 0))
      => /\ Contains(shutdown_signals, SIGABRT)
         /\ mpc # "died" \/ round_log # << >>

(* C15: once a cause is recorded in self.__signal, the monitor thread
   calls no further probe, under every interleaving of the main thread's
   signal handlers with the monitor thread. *)
C15_NoProbeAfterTrigger ==
    late_probes = 0

(* C15, amended: a probe is called only after the test of line 77 found no
   cause recorded.  A cause recorded between that test and the call of line
   80 does not stop the call, so that at most one probe is called after the
   cause was recorded; the remaining probes of the round are not called and
   no later round starts. *)
C15_AtMostOneLateProbe ==
    /\ [](late_probes <= 1)
    /\ [][rounds' # rounds => signal = None]_vars

\* a signal handler recorded SIGTERM between the test of line 77 and the call
\* of the first probe: that probe ran, the second did not, the loop exited
C15_Witness ==
    /\ late_probes = 1
    /\ signal = SIGTERM
    /\ mpc = "exited"
    /\ ProbeCount = 2 /\ Len(round_log) = 1

(* C16: with both threads scheduled fairly and every callable returning,
   once a cause is recorded in a started watchdog the monitor thread
   eventually ends, with no wait timeout having to expire; the Event's flag,
   once set, is never cleared. *)
C16_PromptExit ==
    /\ (signal # None /\ mpc # "unstarted") ~> ~ThreadAlive
    /\ [][sleeper => sleeper']_vars

\* a signal arrived while the monitor thread waited for the poll interval
\* after a round; the flag was set and the thread has exited
C16_Witness ==
    /\ mpc = "exited"
    /\ sleeper
    /\ signal = SIGTERM
    /\ rounds > 0 /\ Len(round_log) = ProbeCount
    /\ late_probes = 0 /\ unhealthy_round = 0

(* C17: a cause is recorded and shutdown callables are called only after
   start(): while the monitor thread is unstarted, self.__signal is None and
   no shutdown callable has been called, also after a registered signal was
   delivered. *)
C17_TriggerOnlyAfterStart ==
    mpc = "unstarted" =>
        /\ signal = None
        /\ \A p \in 1 .. MaxLen : shut_count[p] = 0

(* C18: the monitor thread is started at most once.  A start() issued after
   the thread was started ends with the RuntimeError of Thread.start() and
   changes nothing in the monitor thread, the trigger state or the polling
   history; a thread that has ended stays ended, so that no start-delay wait
   and no probe call follows its end; the thread is never unstarted again. *)
C18_NotRestartable ==
    [][/\ (nstarts' = nstarts + 1 /\ mpc # "unstarted")
            => /\ result' = "start_runtime_error"
               /\ UNCHANGED <<monvars, trigvars, monhist>>
       /\ mpc \in {"exited", "died"}
            => UNCHANGED <<mpc, mi, rounds, round_log, wait_ended, late_probes>>
       /\ mpc' = "unstarted" => mpc = "unstarted"
       /\ (mpc' = "start_wait" /\ mpc # "start_wait") => mpc = "unstarted"]_vars

\* start(), a trigger, join() to its end, and then a second start()
C18_Witness ==
    /\ result = "start_runtime_error"
    /\ nstarts = 2 /\ njoins = 1 /\ ~early_join
    /\ mpc = "exited"
    /\ rounds > 0 /\ join_log # << >>

(* C19: when join() calls a join callable, no execution of
   __handle_shutdown is in progress, neither a signal handler in the main
   thread nor the call made by the monitor thread after a probe failure:
   every execution of the shutdown callables that has begun has finished,
   whichever context recorded the cause, and also when both ran them. *)
C19_TeardownOrder ==
    [][(join_log' # join_log /\ join_log' # << >>) => Frames = {}]_vars

\* a probe failure and the handler of the one delivered signal both ran the
\* shutdown callables, and join() then called its callables and returned
C19_Witness ==
    /\ result = "join_returned" /\ join_log # << >>
    /\ unhealthy_round > 0 /\ delivered = 1
    /\ shut_count[1] = 2 /\ shut_count[2] = 2

\* the sequence a callables field stands for: None holds no callable
SeqOf(ref) == IF ref = 0 THEN << >> ELSE heap[ref]
ProbeSeq == SeqOf(monitor_callables)
ShutdownSeq == SeqOf(shutdown_callables)
JoinSeq == SeqOf(join_callables)

(* C20: a registration call that changes the shutdown callables appends the
   given list to them, in order, and leaves the probes and the join
   callables as they were; one that changes the probes appends the given
   list to them and leaves the shutdown and the join callables as they
   were; however the caller supplied the lists. *)
C20_RegistrationFrame ==
    [][nregs' = nregs + 1 =>
         /\ ShutdownSeq' # ShutdownSeq
              => /\ \E arg \in RegArgs : ShutdownSeq' = ShutdownSeq \o heap[arg]
                 /\ ProbeSeq' = ProbeSeq
                 /\ JoinSeq' = JoinSeq
         /\ ProbeSeq' # ProbeSeq
              => /\ \E arg \in RegArgs : ProbeSeq' = ProbeSeq \o heap[arg]
                 /\ ShutdownSeq' = ShutdownSeq
                 /\ JoinSeq' = JoinSeq]_vars

====
